---- MODULE Spec2Model ----
(***************************************************************************)
(* Model of src/tools/stock_data_tool.py: five tool functions that fetch   *)
(* an A-share snapshot (or the industry-sector table) from the market-data *)
(* provider, transform it and return it as a JSON document, with one       *)
(* "except Exception" boundary around each body that returns static demo   *)
(* data.                                                                   *)
(*                                                                         *)
(* Column and key names are written in ASCII; the source's names are:      *)
(*   code=代码  name=名称  price=最新价  pct=涨跌幅  change=涨跌额           *)
(*   volume=成交量  amount=成交额  open=今开  high=最高  low=最低            *)
(*   prev_close=昨收  turnover=换手率  pe=市盈率  pb=市净率                  *)
(*   total_cap=总市值  float_cap=流通市值                                   *)
(*   sector=板块名称  ups=上涨家数  downs=下跌家数                           *)
(*   ShangZheng=上证指数 ShenZheng=深证成指 ChuangYe=创业板指 KeChuang50=科创50 *)
(*   gainers=涨幅榜 losers=跌幅榜 best=表现最好的板块 worst=表现最差的板块     *)
(*   limits=涨跌停统计 limit_up=涨停家数 limit_down=跌停家数                 *)
(*   counts=涨跌家数 up=上涨家数 down=下跌家数 flat=平盘家数                 *)
(*   perf=市场表现 avg_pct=平均涨跌幅 total_amount=总成交额 total=股票总数   *)
(*                                                                         *)
(* Numbers are scaled integers: pct in tenths of a percent (9.9 is 99),    *)
(* amount in yuan, the rounded statistics in hundredths.                   *)
(***************************************************************************)
EXTENDS Integers, Sequences, FiniteSets, TLC

VARIABLES market, sectors, last, pc, call, df, items, result, exc, resp, hist

vars == <<market, sectors, last, pc, call, df, items, result, exc, resp, hist>>

(***************************************************************************)
(* Values.  A cell of a table or a number of a document is a tagged value: *)
(*   float  a floating-point number            nan   the float NaN         *)
(*   int    an integer                         txt   text that parses as a *)
(*   bad    text that is no number ("-")             number                *)
(* A number of the static demo data is kept as its literal (lit).          *)
(***************************************************************************)
F(v) == [t |-> "float", v |-> v]
I(v) == [t |-> "int", v |-> v]
Txt(v) == [t |-> "txt", v |-> v]
NaN == [t |-> "nan", v |-> 0]
Bad == [t |-> "bad", v |-> 0]
LitF(s) == [t |-> "float", lit |-> s]
LitI(s) == [t |-> "int", lit |-> s]

\* What json.dumps writes as a number: a Python float (NaN included) or int.
IsFloat(c) == c.t \in {"float", "nan"}
IsNumber(c) == c.t \in {"float", "nan", "int"}
\* A cell that holds a number one can compare: not NaN, not text.
HasValue(c) == c.t \in {"float", "int"}

OK(x) == [ok |-> TRUE, val |-> x]
Raise(e) == [ok |-> FALSE, err |-> e]

KeyError(col) == [exc |-> "KeyError", msg |-> col]
ValueErrorFloat == [exc |-> "ValueError", msg |-> "could not convert string to float"]
ValueErrorInt == [exc |-> "ValueError", msg |-> "invalid literal for int()"]
ValueErrorNaN == [exc |-> "ValueError", msg |-> "cannot convert float NaN to integer"]
TypeErrorCompare == [exc |-> "TypeError", msg |-> "not supported between instances of 'str' and 'float'"]
TypeErrorSum == [exc |-> "TypeError", msg |-> "unsupported operand type(s)"]
ConnectionError == [exc |-> "ConnectionError", msg |-> "connection aborted"]
ContextError == [exc |-> "RuntimeError", msg |-> "no request context"]

\* str(e), what the fallback documents carry under "error".
Str(e) == e.msg

\* A float() that passes text through unconverted (what C8 rules out).
PyFloatKeepsText(c) ==
    CASE c.t \in {"float", "txt"} -> OK(c)
      [] c.t = "nan" -> OK(NaN)
      [] c.t = "int" -> OK([t |-> "float", v |-> c.v])
      [] OTHER -> Raise(ValueErrorFloat)

\* float(x) of Python.
PyFloat(c) ==
    CASE c.t = "float" -> OK(c)
      [] c.t = "nan" -> OK(NaN)
      [] c.t = "int" -> OK(F(c.v))
      [] c.t = "txt" -> OK(F(c.v))
      [] OTHER -> Raise(ValueErrorFloat)

\* int(x) of Python (the count columns hold whole numbers).
PyInt(c) ==
    CASE c.t = "int" -> OK(c)
      [] c.t = "float" -> OK(I(c.v))
      [] c.t = "txt" -> OK(I(c.v))
      [] c.t = "nan" -> Raise(ValueErrorNaN)
      [] OTHER -> Raise(ValueErrorInt)

(***************************************************************************)
(* A DataFrame: the set of its columns and its rows in index order.  Every *)
(* row carries its index label idx (its position in the fetched table).    *)
(***************************************************************************)
StockCols == {"code", "name", "price", "pct", "change", "volume", "amount",
              "open", "high", "low", "prev_close", "turnover", "pe", "pb",
              "total_cap", "float_cap"}
SectorCols == {"sector", "price", "pct", "change", "volume", "amount",
               "ups", "downs"}

Frame(cols, rows) == [cols |-> cols, rows |-> rows]

Range(s) == {s[i] : i \in 1..Len(s)}

SelectRows(rows, code) == SelectSeq(rows, LAMBDA r : r.code = code)

DfHead(n, s) == SubSeq(s, 1, IF Len(s) < n THEN Len(s) ELSE n)
\* A tail that takes the head again (what C6 rules out).
DfTailIsHead(n, s) == SubSeq(s, 1, IF Len(s) < n THEN Len(s) ELSE n)

DfTail(n, s) == SubSeq(s, IF Len(s) < n THEN 1 ELSE Len(s) - n + 1, Len(s))

\* The first failure of a sequence of results, evaluated left to right.
FirstErr(rs) == rs[CHOOSE i \in 1..Len(rs) : ~rs[i].ok /\ \A j \in 1..(i - 1) : rs[j].ok]
AllOk(rs) == \A i \in 1..Len(rs) : rs[i].ok

(***************************************************************************)
(* DataFrame.sort_values('pct', ascending=asc).  Rows whose key is NaN go  *)
(* last, in index order (na_position='last'), whichever the direction.     *)
(* The rest is sorted by the key; text keys (an object column) compare     *)
(* with one another, and comparing text with a number raises TypeError.    *)
(* The default sort is not stable: tie decides how equal keys are left,    *)
(* in index order ("stable") or in reverse index order ("reverse").        *)
(***************************************************************************)
TieOrders == {"stable", "reverse"}

\* A comparison that ignores the direction asked for (what C3 rules out).
KeyBeforeAscending(a, b, asc) == a.pct.v < b.pct.v

KeyBefore(a, b, asc) == IF asc THEN a.pct.v < b.pct.v ELSE a.pct.v > b.pct.v

\* Where r goes into the sorted s: before the first row that must follow it.
InsertPos(s, r, asc, tie) ==
    LET after(x) == IF tie = "stable" THEN KeyBefore(r, x, asc) ELSE ~KeyBefore(x, r, asc)
        later == {i \in 1..Len(s) : after(s[i])}
    IN  IF later = {} THEN Len(s) + 1 ELSE CHOOSE i \in later : \A j \in later : i <= j

RECURSIVE SortRows(_, _, _)
SortRows(rows, asc, tie) ==
    IF rows = <<>> THEN <<>>
    ELSE LET n == Len(rows)
             s == SortRows(SubSeq(rows, 1, n - 1), asc, tie)
             p == InsertPos(s, rows[n], asc, tie)
         IN  SubSeq(s, 1, p - 1) \o <<rows[n]>> \o SubSeq(s, p, Len(s))

SortValues(d, asc, tie) ==
    IF "pct" \notin d.cols THEN Raise(KeyError("pct"))
    ELSE LET keyed == SelectSeq(d.rows, LAMBDA r : r.pct.t # "nan")
             nans == SelectSeq(d.rows, LAMBDA r : r.pct.t = "nan")
             mixed == /\ \E i \in 1..Len(keyed) : keyed[i].pct.t = "bad"
                      /\ \E i \in 1..Len(keyed) : keyed[i].pct.t # "bad"
         IN  IF mixed THEN Raise(TypeErrorCompare)
             ELSE OK(SortRows(keyed, asc, tie) \o nans)

\* df[columns]: KeyError for the first column of the list the frame lacks.
SelectCols(d, columns) ==
    LET lacks == {i \in 1..Len(columns) : columns[i] \notin d.cols}
    IN  IF lacks = {} THEN OK(d)
        ELSE Raise(KeyError(columns[CHOOSE i \in lacks : \A j \in lacks : i <= j]))

\* row[col] on a row of the frame d.
Cell(d, row, col) == IF col \in d.cols THEN OK(row[col]) ELSE Raise(KeyError(col))

\* float(row[col]) and int(row[col]).
FloatOf(d, row, col) == IF col \in d.cols THEN PyFloat(row[col]) ELSE Raise(KeyError(col))
IntOf(d, row, col) == IF col \in d.cols THEN PyInt(row[col]) ELSE Raise(KeyError(col))

\* float(idx.get(col, 0)): a column the frame lacks reads as 0.
FloatGet(d, row, col) == PyFloat(IF col \in d.cols THEN row[col] ELSE I(0))

(***************************************************************************)
(* get_stock_index_data                                                    *)
(***************************************************************************)
indices ==
    << [name |-> "ShangZheng", code |-> "000001"],
       [name |-> "ShenZheng", code |-> "399001"],
       [name |-> "ChuangYe", code |-> "399006"],
       [name |-> "KeChuang50", code |-> "000688"] >>

IndexFields == <<"price", "pct", "change", "volume", "amount">>

NoDataEntry(code) ==
    [code |-> code, price |-> I(0), pct |-> I(0), change |-> I(0),
     volume |-> I(0), amount |-> I(0), note |-> "no data"]

\* One pass of the loop over the four indices.
IndexEntry(d, ic) ==
    IF "code" \notin d.cols THEN Raise(KeyError("code"))
    ELSE LET index_data == SelectRows(d.rows, ic.code)
         IN  IF index_data # <<>>
             THEN LET idx == index_data[1]
                      fs == [i \in 1..Len(IndexFields) |-> FloatGet(d, idx, IndexFields[i])]
                  IN  IF AllOk(fs)
                      THEN OK([code |-> ic.code, price |-> fs[1].val, pct |-> fs[2].val,
                               change |-> fs[3].val, volume |-> fs[4].val,
                               amount |-> fs[5].val])
                      ELSE FirstErr(fs)
             ELSE OK(NoDataEntry(ic.code))

\* A document that files two entries under each other's name (what C4 rules
\* out).
IndexDocSwapped(entries) ==
    [ShangZheng |-> entries[2], ShenZheng |-> entries[1],
     ChuangYe |-> entries[3], KeChuang50 |-> entries[4]]

IndexDoc(entries) ==
    [ShangZheng |-> entries[1], ShenZheng |-> entries[2],
     ChuangYe |-> entries[3], KeChuang50 |-> entries[4]]

IndexDemo ==
    [ShangZheng |-> [code |-> "000001", price |-> LitF("3085.15"), pct |-> LitF("0.52"),
                     change |-> LitF("15.93"), volume |-> LitI("125680000"),
                     amount |-> LitI("158965000000"), note |-> "demo data"],
     ShenZheng |-> [code |-> "399001", price |-> LitF("9856.78"), pct |-> LitF("0.78"),
                    change |-> LitF("76.23"), volume |-> LitI("234567000"),
                    amount |-> LitI("345678000000"), note |-> "demo data"],
     ChuangYe |-> [code |-> "399006", price |-> LitF("1956.89"), pct |-> LitF("-0.23"),
                   change |-> LitF("-4.51"), volume |-> LitI("98765400"),
                   amount |-> LitI("123456000000"), note |-> "demo data"],
     KeChuang50 |-> [code |-> "000688", price |-> LitF("892.45"), pct |-> LitF("1.25"),
                     change |-> LitF("11.02"), volume |-> LitI("45678900"),
                     amount |-> LitI("67890000000"), note |-> "demo data"]]

(***************************************************************************)
(* get_stock_ranking                                                       *)
(***************************************************************************)
RankTop == 20

RankColumns == <<"code", "name", "price", "pct", "change", "volume", "amount">>

\* The dict appended for one row of df_rise or df_fall.
RankEntry(d, row) ==
    LET fs == << FloatOf(d, row, "price"), FloatOf(d, row, "pct"),
                 FloatOf(d, row, "change"), FloatOf(d, row, "volume"),
                 FloatOf(d, row, "amount") >>
    IN  IF AllOk(fs)
        THEN OK([code |-> row.code, name |-> row.name,
                 price |-> fs[1].val, pct |-> fs[2].val, change |-> fs[3].val,
                 volume |-> fs[4].val, amount |-> fs[5].val])
        ELSE FirstErr(fs)

\* df_rise and df_fall, restricted to the columns; the rows still to transform.
RankRows(d, tie) ==
    LET rise == SortValues(d, FALSE, tie)
        fall == SortValues(d, TRUE, tie)
        cols == SelectCols(d, RankColumns)
    IN  IF ~rise.ok THEN rise
        ELSE IF ~fall.ok THEN fall
        ELSE IF ~cols.ok THEN cols
        ELSE OK([rise |-> DfHead(RankTop, rise.val), fall |-> DfHead(RankTop, fall.val)])

RankDoc(rise, fall) == [gainers |-> rise, losers |-> fall]

DemoRank(code, name, price, pct, change, volume, amount) ==
    [code |-> code, name |-> name, price |-> LitF(price), pct |-> LitF(pct),
     change |-> LitF(change), volume |-> LitI(volume), amount |-> LitI(amount)]

RankDemo ==
    [gainers |-> << DemoRank("600123", "LanHuaKeChuang", "15.68", "10.05", "1.43", "125680000", "1589650000"),
                    DemoRank("002456", "OuFeiGuang", "12.35", "9.98", "1.12", "234567000", "3456780000") >>,
     losers |-> << DemoRank("300456", "SaiWeiDianZi", "23.45", "-9.95", "-2.59", "98765400", "1234560000"),
                   DemoRank("600789", "LuKangYiYao", "8.92", "-9.92", "-0.98", "45678900", "678900000") >>,
     note |-> "demo data"]

(***************************************************************************)
(* get_market_statistics                                                   *)
(***************************************************************************)
LimitUp == 99
LimitDown == -99
Yi == 100000000

RECURSIVE SumSeq(_)
SumSeq(s) == IF s = <<>> THEN 0 ELSE s[1] + SumSeq(SubSeq(s, 2, Len(s)))

\* A rounding that truncates (what C5 rules out).
Round2Truncated(num, den) == num \div den

\* round(num / den, 2) in hundredths, den > 0: numpy rounds halves to even.
Round2(num, den) ==
    LET q == num \div den
        r == num % den
    IN  IF 2 * r < den THEN q
        ELSE IF 2 * r > den THEN q + 1
        ELSE IF q % 2 = 0 THEN q ELSE q + 1

\* v <cmp> x, for the five comparisons the statistics make.
Compare(v, cmp, x) ==
    CASE cmp = ">=" -> v >= x
      [] cmp = "<=" -> v <= x
      [] cmp = ">" -> v > x
      [] cmp = "<" -> v < x
      [] cmp = "==" -> v = x

\* len(df[df['pct'] <cmp> x]): a comparison with NaN is False.
CountRows(rows, cmp, x) ==
    Len(SelectSeq(rows, LAMBDA r : HasValue(r.pct) /\ Compare(r.pct.v, cmp, x)))

\* Series.mean() and Series.sum() skip NaN; the mean of no value is NaN.
ValuesOf(rows, col) ==
    LET vs == SelectSeq(rows, LAMBDA r : HasValue(r[col]))
    IN  [i \in 1..Len(vs) |-> vs[i][col].v]

MeanPct(rows) ==
    LET vs == ValuesOf(rows, "pct")
    IN  IF vs = <<>> THEN NaN ELSE F(Round2(10 * SumSeq(vs), Len(vs)))

TotalAmount(rows) == F(Round2(SumSeq(ValuesOf(rows, "amount")), Yi \div 100))

HasText(rows, col) == \E i \in 1..Len(rows) : rows[i][col].t \in {"bad", "txt"}

Statistics(d) ==
    IF "pct" \notin d.cols THEN Raise(KeyError("pct"))
    ELSE IF HasText(d.rows, "pct") THEN Raise(TypeErrorCompare)
    ELSE IF "amount" \notin d.cols THEN Raise(KeyError("amount"))
    ELSE IF HasText(d.rows, "amount") THEN Raise(TypeErrorSum)
    ELSE OK([limits |-> [limit_up |-> I(CountRows(d.rows, ">=", LimitUp)),
                         limit_down |-> I(CountRows(d.rows, "<=", LimitDown))],
             counts |-> [up |-> I(CountRows(d.rows, ">", 0)),
                         down |-> I(CountRows(d.rows, "<", 0)),
                         flat |-> I(CountRows(d.rows, "==", 0))],
             perf |-> [avg_pct |-> MeanPct(d.rows), total_amount |-> TotalAmount(d.rows)],
             total |-> I(Len(d.rows))])

StatsDemo ==
    [limits |-> [limit_up |-> LitI("45"), limit_down |-> LitI("12")],
     counts |-> [up |-> LitI("2856"), down |-> LitI("1523"), flat |-> LitI("89")],
     perf |-> [avg_pct |-> LitF("0.35"), total_amount |-> LitF("7654.32")],
     total |-> LitI("4468"),
     note |-> "demo data"]

(***************************************************************************)
(* get_sector_performance                                                  *)
(***************************************************************************)
SectorTop == 10

SectorColumns == <<"sector", "price", "pct", "change", "volume", "amount", "ups", "downs">>

SectorEntry(d, row) ==
    LET fs == << FloatOf(d, row, "price"), FloatOf(d, row, "pct"),
                 FloatOf(d, row, "change"), IntOf(d, row, "ups"),
                 IntOf(d, row, "downs") >>
    IN  IF AllOk(fs)
        THEN OK([sector |-> row.sector, price |-> fs[1].val, pct |-> fs[2].val,
                 change |-> fs[3].val, ups |-> fs[4].val, downs |-> fs[5].val])
        ELSE FirstErr(fs)

\* top_sectors and bottom_sectors: head and tail of the one sorted frame.
SectorRows(d, tie) ==
    LET cols == SelectCols(d, SectorColumns)
        sorted == SortValues(d, FALSE, tie)
    IN  IF ~cols.ok THEN cols
        ELSE IF ~sorted.ok THEN sorted
        ELSE OK([top |-> DfHead(SectorTop, sorted.val),
                 bottom |-> DfTail(SectorTop, sorted.val)])

SectorDoc(top, bottom) == [best |-> top, worst |-> bottom]

DemoSector(sector, price, pct, change, ups, downs) ==
    [sector |-> sector, price |-> LitF(price), pct |-> LitF(pct),
     change |-> LitF(change), ups |-> LitI(ups), downs |-> LitI(downs)]

SectorDemo ==
    [best |-> << DemoSector("AI", "1256.78", "4.52", "54.32", "45", "3"),
                 DemoSector("BanDaoTi", "3456.89", "3.25", "108.76", "89", "12") >>,
     worst |-> << DemoSector("FangDiChan", "789.45", "-2.15", "-17.34", "8", "67"),
                  DemoSector("YinHang", "1023.56", "-1.23", "-12.78", "12", "34") >>,
     note |-> "demo data"]

(***************************************************************************)
(* get_stock_info                                                          *)
(***************************************************************************)
InfoFields == <<"price", "pct", "change", "open", "high", "low", "prev_close",
                "volume", "amount", "turnover", "pe", "pb", "total_cap", "float_cap">>

\* A lookup that does not filter by the code (what C2 rules out).
InfoSelectAny(d, stock_code) ==
    IF "code" \notin d.cols THEN Raise(KeyError("code")) ELSE OK(d.rows)

\* df[df['code'] == stock_code]
InfoSelect(d, stock_code) ==
    IF "code" \notin d.cols THEN Raise(KeyError("code"))
    ELSE OK(SelectRows(d.rows, stock_code))

NotFound(stock_code) == [msg |-> "stock code not found", code |-> stock_code]

\* The result dict of the first matching row.
InfoEntry(d, row) ==
    LET ids == << Cell(d, row, "code"), Cell(d, row, "name") >>
        fs == [i \in 1..Len(InfoFields) |-> FloatOf(d, row, InfoFields[i])]
    IN  IF ~AllOk(ids) THEN FirstErr(ids)
        ELSE IF ~AllOk(fs) THEN FirstErr(fs)
        ELSE OK([code |-> ids[1].val, name |-> ids[2].val] @@
                [k \in Range(InfoFields) |->
                    fs[CHOOSE i \in 1..Len(InfoFields) : InfoFields[i] = k].val])

InfoDemo(stock_code) ==
    [code |-> stock_code, name |-> "ShiLiGuPiao", price |-> LitF("15.68"),
     pct |-> LitF("5.23"), change |-> LitF("0.78"), open |-> LitF("15.10"),
     high |-> LitF("15.85"), low |-> LitF("15.05"), prev_close |-> LitF("14.90"),
     volume |-> LitI("125680000"), amount |-> LitI("1987654321"),
     turnover |-> LitF("3.45"), pe |-> LitF("25.6"), pb |-> LitF("2.8"),
     total_cap |-> LitI("156800000000"), float_cap |-> LitI("98760000000"),
     note |-> "demo data"]

(***************************************************************************)
(* The five bodies in one shape: what the body prepares before its loop    *)
(* (Prepare), what one pass of the loop appends (TransformItem), and the   *)
(* document it returns (Assemble).  Any of them may raise.                 *)
(***************************************************************************)
Ops == {"get_stock_index_data", "get_stock_ranking", "get_market_statistics",
        "get_sector_performance", "get_stock_info"}

Json(doc) == [kind |-> "json", doc |-> doc]
Text(t) == [kind |-> "text", text |-> t]

\* The table the operation fetches: stock_board_industry_name_em() for the
\* sectors, stock_zh_a_spot_em() for the rest.
TableOf(o, m, s) == IF o = "get_sector_performance" THEN s ELSE m

Prepare(o, d, stock_code, tie) ==
    CASE o = "get_stock_index_data" -> OK([items |-> indices, split |-> 0])
      [] o = "get_stock_ranking" ->
            LET r == RankRows(d, tie)
            IN  IF r.ok THEN OK([items |-> r.val.rise \o r.val.fall, split |-> Len(r.val.rise)])
                ELSE r
      [] o = "get_market_statistics" -> OK([items |-> <<"statistics">>, split |-> 0])
      [] o = "get_sector_performance" ->
            LET r == SectorRows(d, tie)
            IN  IF r.ok THEN OK([items |-> r.val.top \o r.val.bottom, split |-> Len(r.val.top)])
                ELSE r
      [] o = "get_stock_info" ->
            LET r == InfoSelect(d, stock_code)
            IN  IF r.ok THEN OK([items |-> DfHead(1, r.val), split |-> 0]) ELSE r

TransformItem(o, d, item) ==
    CASE o = "get_stock_index_data" -> IndexEntry(d, item)
      [] o = "get_stock_ranking" -> RankEntry(d, item)
      [] o = "get_market_statistics" -> Statistics(d)
      [] o = "get_sector_performance" -> SectorEntry(d, item)
      [] o = "get_stock_info" -> InfoEntry(d, item)

Assemble(o, stock_code, entries, split) ==
    CASE o = "get_stock_index_data" -> Json(IndexDoc(entries))
      [] o = "get_stock_ranking" ->
            Json(RankDoc(SubSeq(entries, 1, split), SubSeq(entries, split + 1, Len(entries))))
      [] o = "get_market_statistics" -> Json(entries[1])
      [] o = "get_sector_performance" ->
            Json(SectorDoc(SubSeq(entries, 1, split), SubSeq(entries, split + 1, Len(entries))))
      [] o = "get_stock_info" ->
            IF entries = <<>> THEN Text(NotFound(stock_code)) ELSE Json(entries[1])

\* The static demo data of the except branch.
Demo(o, stock_code) ==
    CASE o = "get_stock_index_data" -> IndexDemo
      [] o = "get_stock_ranking" -> RankDemo
      [] o = "get_market_statistics" -> StatsDemo
      [] o = "get_sector_performance" -> SectorDemo
      [] o = "get_stock_info" -> InfoDemo(stock_code)

\* A fallback that keeps the error to itself (what C1 rules out).
FallbackNoError(o, stock_code, e) == Json(Demo(o, stock_code))

\* except Exception as e: return json.dumps({...demo data..., "error": str(e)})
Fallback(o, stock_code, e) == Json(Demo(o, stock_code) @@ [error |-> Str(e)])

\* The one element of a singleton: Only({e(x) : x \in {v}}) is e(v), with
\* v evaluated once.
Only(S) == CHOOSE x \in S : TRUE

\* The try body after the fetch returned the frame d.
Body(o, d, stock_code, tie) ==
    Only({ IF ~p.ok THEN p
           ELSE Only({ IF AllOk(es)
                       THEN OK(Assemble(o, stock_code, [i \in 1..Len(es) |-> es[i].val],
                                        p.val.split))
                       ELSE FirstErr(es) :
                       es \in {[i \in 1..Len(p.val.items) |->
                                   TransformItem(o, d, p.val.items[i])]} }) :
           p \in {Prepare(o, d, stock_code, tie)} })

\* The whole try body: the context, the fetch, the rest.  outcome says what
\* the two outside calls do: both return, new_context raises, the fetch raises.
Outcomes == {"ok", "ctx_raises", "fetch_raises"}

TryBody(o, d, stock_code, tie, outcome) ==
    CASE outcome = "ctx_raises" -> Raise(ContextError)
      [] outcome = "fetch_raises" -> Raise(ConnectionError)
      [] OTHER -> Body(o, d, stock_code, tie)

\* A tool function without the except branch: what the body raised reaches
\* the caller (what C7 rules out).
HandlerPropagates(o, stock_code, r) ==
    IF r.ok THEN r.val ELSE [kind |-> "exception", err |-> r.err]

\* The tool function around the try body's outcome r: what the body
\* returned, or the fallback for what it raised.
Handler(o, stock_code, r) ==
    IF r.ok THEN r.val ELSE Fallback(o, stock_code, r.err)

(***************************************************************************)
(* The provider's tables the model is run on.                              *)
(***************************************************************************)
FreeRows == 2
MaxFill == 21

Labels == << "N01", "N02", "N03", "N04", "N05", "N06", "N07", "N08", "N09", "N10",
             "N11", "N12", "N13", "N14", "N15", "N16", "N17", "N18", "N19", "N20",
             "N21", "N22", "N23", "N24", "N25", "N26", "N27", "N28", "N29", "N30" >>

\* A stock row and a sector row at index i; the columns the fixtures do not
\* vary hold a float of their own per row and column.
MkStock(i, t) ==
    [idx |-> i, code |-> t.code, name |-> Labels[i], price |-> t.price, pct |-> t.pct,
     change |-> F(20 * i + 1), volume |-> F(20 * i + 2), amount |-> t.amount,
     open |-> F(20 * i + 3), high |-> F(20 * i + 4), low |-> F(20 * i + 5),
     prev_close |-> F(20 * i + 6), turnover |-> F(20 * i + 7), pe |-> F(20 * i + 8),
     pb |-> F(20 * i + 9), total_cap |-> F(20 * i + 10), float_cap |-> F(20 * i + 11)]

MkSector(i, t) ==
    [idx |-> i, sector |-> Labels[i], price |-> t.price, pct |-> t.pct,
     change |-> F(20 * i + 1), volume |-> F(20 * i + 2), amount |-> t.amount,
     ups |-> t.ups, downs |-> I(i)]

Templates ==
    << [code |-> "000001", pct |-> F(5), price |-> F(308515), amount |-> F(500000), ups |-> I(3)],
       [code |-> "399001", pct |-> F(-99), price |-> Txt(985678), amount |-> F(1500000), ups |-> F(4)],
       [code |-> "399006", pct |-> NaN, price |-> NaN, amount |-> NaN, ups |-> I(0)],
       [code |-> "000688", pct |-> F(99), price |-> Bad, amount |-> F(2500000), ups |-> NaN],
       [code |-> "600519", pct |-> F(100), price |-> F(1), amount |-> F(0), ups |-> Txt(7)],
       [code |-> "000001", pct |-> F(0), price |-> F(7), amount |-> I(500000), ups |-> Bad],
       [code |-> "600519", pct |-> Bad, price |-> F(2), amount |-> F(500000), ups |-> I(1)],
       [code |-> "600036", pct |-> F(-100), price |-> F(3), amount |-> Bad, ups |-> I(2)] >>

PctVals == <<-100, -99, -5, 0, 5, 99, 100>>
AmtVals == <<0, 500000, 1500000, 2500000>>
FillCodes == <<"600519", "000001", "600036", "399001", "601398", "399006", "000858", "000688">>

\* The patterns of the filler rows: pct walks PctVals from off in steps of
\* step, and every nan-th row has no pct (a suspended stock).
Seeds ==
    << [step |-> 1, off |-> 0, nan |-> 0], [step |-> 3, off |-> 2, nan |-> 0],
       [step |-> 0, off |-> 3, nan |-> 0], [step |-> 2, off |-> 1, nan |-> 4] >>

Filler(i, sd) ==
    [code |-> FillCodes[(i % Len(FillCodes)) + 1],
     pct |-> IF sd.nan > 0 /\ i % sd.nan = 0 THEN NaN
             ELSE F(PctVals[((i * sd.step + sd.off) % Len(PctVals)) + 1]),
     price |-> F(100 + i),
     amount |-> F(AmtVals[((i * (sd.step + 1)) % Len(AmtVals)) + 1]),
     ups |-> I(i % 5)]

\* Up to FreeRows rows, each any template.
SmallTables == UNION {[1..n -> 1..Len(Templates)] : n \in 0..FreeRows}

\* An optional template row (h = 0: none) before m filler rows of one seed.
LargeTable(h, m, sd) ==
    (IF h = 0 THEN <<>> ELSE <<Templates[h]>>) \o [i \in 1..m |-> Filler(i, sd)]

TemplateRows ==
    {[i \in 1..Len(f) |-> Templates[f[i]]] : f \in SmallTables}
    \cup {LargeTable(h, m, Seeds[k]) : h \in 0..Len(Templates), m \in 1..MaxFill,
                                       k \in 1..Len(Seeds)}

StockDrops == {"none", "code", "name", "price", "pct", "amount", "turnover"}
SectorDrops == {"none", "pct", "ups"}

\* The provider's answer when it has no data: a frame of no column, no row.
EmptyFrame == Frame({}, <<>>)

\* The schema changed: small tables may lack one column.
StockTables ==
    {Frame(StockCols \ {c}, [i \in 1..Len(ts) |-> MkStock(i, ts[i])]) :
        c \in StockDrops, ts \in {t \in TemplateRows : Len(t) <= FreeRows}}
    \cup {Frame(StockCols, [i \in 1..Len(ts) |-> MkStock(i, ts[i])]) : ts \in TemplateRows}
    \cup {EmptyFrame}

SectorTables ==
    {Frame(SectorCols \ {c}, [i \in 1..Len(ts) |-> MkSector(i, ts[i])]) :
        c \in SectorDrops, ts \in {t \in TemplateRows : Len(t) <= FreeRows}}
    \cup {Frame(SectorCols, [i \in 1..Len(ts) |-> MkSector(i, ts[i])]) : ts \in TemplateRows}
    \cup {EmptyFrame}

DefaultStocks == Frame(StockCols, <<MkStock(1, Templates[1])>>)
DefaultSectors == Frame(SectorCols, <<MkSector(1, Templates[1])>>)

QueryCodes == {"000001", "600519", "300750"}

(***************************************************************************)
(* Spec: one invocation of one tool function, whole, on a table of the     *)
(* provider.  last records the call and what it returned.                  *)
(***************************************************************************)
NoCall == [op |-> "none"]

Idle ==
    /\ pc = <<>> /\ call = <<>> /\ df = <<>> /\ items = <<>>
    /\ result = <<>> /\ exc = <<>> /\ resp = <<>> /\ hist = <<>>

Init ==
    /\ \/ market \in StockTables /\ sectors = DefaultSectors
       \/ market = DefaultStocks /\ sectors \in SectorTables
    /\ last = NoCall
    /\ Idle

\* What last holds after one whole invocation.
Returned(o, stock_code, tie, outcome) ==
    Only({ [op |-> o, stock_code |-> stock_code, tie |-> tie, outcome |-> outcome,
            raised |-> ~r.ok, err |-> IF r.ok THEN "" ELSE Str(r.err),
            resp |-> Handler(o, stock_code, r)] :
           r \in {TryBody(o, TableOf(o, market, sectors), stock_code, tie, outcome)} })

get_stock_index_data ==
    /\ last = NoCall
    /\ \E outcome \in Outcomes :
          last' = Returned("get_stock_index_data", "", "stable", outcome)
    /\ UNCHANGED <<market, sectors, pc, call, df, items, result, exc, resp, hist>>

get_stock_ranking ==
    /\ last = NoCall
    /\ \E outcome \in Outcomes, tie \in TieOrders :
          last' = Returned("get_stock_ranking", "", tie, outcome)
    /\ UNCHANGED <<market, sectors, pc, call, df, items, result, exc, resp, hist>>

get_market_statistics ==
    /\ last = NoCall
    /\ \E outcome \in Outcomes :
          last' = Returned("get_market_statistics", "", "stable", outcome)
    /\ UNCHANGED <<market, sectors, pc, call, df, items, result, exc, resp, hist>>

get_sector_performance ==
    /\ last = NoCall
    /\ \E outcome \in Outcomes, tie \in TieOrders :
          last' = Returned("get_sector_performance", "", tie, outcome)
    /\ UNCHANGED <<market, sectors, pc, call, df, items, result, exc, resp, hist>>

get_stock_info ==
    /\ last = NoCall
    /\ \E outcome \in Outcomes, stock_code \in QueryCodes :
          last' = Returned("get_stock_info", stock_code, "stable", outcome)
    /\ UNCHANGED <<market, sectors, pc, call, df, items, result, exc, resp, hist>>

Next ==
    \/ get_stock_index_data
    \/ get_stock_ranking
    \/ get_market_statistics
    \/ get_sector_performance
    \/ get_stock_info

Spec == Init /\ [][Next]_vars

(***************************************************************************)
(* SpecSteps: the host framework runs the tool functions on two threads.   *)
(* An invocation goes statement by statement (the context, the fetch, the  *)
(* preparation, one pass of the loop at a time, the return or the except   *)
(* branch), the threads interleave, and the provider's tables change in    *)
(* between.  Everything but market and sectors is local to its thread.     *)
(***************************************************************************)
Threads == {"t1", "t2"}

None == <<>>

\* The provider's tables over time: a good one, one whose second row has an
\* unparseable price and whose second sector has no count, an empty one.
Snapshots ==
    << [market |-> Frame(StockCols, <<MkStock(1, Templates[1]), MkStock(2, Templates[2])>>),
        sectors |-> Frame(SectorCols, <<MkSector(1, Templates[1]), MkSector(2, Templates[2])>>)],
       [market |-> Frame(StockCols, <<MkStock(1, Templates[5]), MkStock(2, Templates[4])>>),
        sectors |-> Frame(SectorCols, <<MkSector(1, Templates[5]), MkSector(2, Templates[4])>>)],
       [market |-> Frame(StockCols, <<>>),
        sectors |-> Frame(SectorCols, <<>>)] >>

Calls ==
    {[op |-> o, stock_code |-> "", tie |-> "stable"] :
        o \in Ops \ {"get_stock_info"}}
    \cup {[op |-> "get_stock_info", stock_code |-> c, tie |-> "stable"] :
        c \in {"600519", "000688"}}

NoHist == [fetches |-> 0, fetched |-> None, outcome |-> "ok", raised |-> FALSE]

InitSteps ==
    /\ market = Snapshots[1].market
    /\ sectors = Snapshots[1].sectors
    /\ last = NoCall
    /\ pc = [t \in Threads |-> "idle"]
    /\ call = [t \in Threads |-> None]
    /\ df = [t \in Threads |-> None]
    /\ items = [t \in Threads |-> None]
    /\ result = [t \in Threads |-> <<>>]
    /\ exc = [t \in Threads |-> None]
    /\ resp = [t \in Threads |-> None]
    /\ hist = [t \in Threads |-> NoHist]

\* The provider publishes another snapshot.
ProviderUpdate ==
    /\ \E k \in 1..Len(Snapshots) :
          /\ market' = Snapshots[k].market
          /\ sectors' = Snapshots[k].sectors
          /\ market' # market
    /\ UNCHANGED <<last, pc, call, df, items, result, exc, resp, hist>>

\* The host calls a tool function on thread t.
Start(t) ==
    /\ pc[t] \in {"idle", "done"}
    /\ \E c \in Calls : call' = [call EXCEPT ![t] = c]
    /\ pc' = [pc EXCEPT ![t] = "ctx"]
    /\ df' = [df EXCEPT ![t] = None]
    /\ items' = [items EXCEPT ![t] = None]
    /\ result' = [result EXCEPT ![t] = <<>>]
    /\ exc' = [exc EXCEPT ![t] = None]
    /\ resp' = [resp EXCEPT ![t] = None]
    /\ hist' = [hist EXCEPT ![t] = NoHist]
    /\ UNCHANGED <<market, sectors, last>>

\* ctx = runtime.context if runtime else new_context(...)
Context(t) ==
    /\ pc[t] = "ctx"
    /\ \/ /\ pc' = [pc EXCEPT ![t] = "fetch"]
          /\ UNCHANGED <<exc, hist>>
       \/ /\ pc' = [pc EXCEPT ![t] = "except"]
          /\ exc' = [exc EXCEPT ![t] = ContextError]
          /\ hist' = [hist EXCEPT ![t].outcome = "ctx_raises", ![t].raised = TRUE]
    /\ UNCHANGED <<market, sectors, last, call, df, items, result, resp>>

\* A fetch behind a cache shared by the threads: the frame another thread
\* holds for the same operation, when there is one (what C9 rules out).
CachedFrame(t) ==
    LET holders == {u \in Threads \ {t} : df[u] # None /\ call[u].op = call[t].op}
    IN  IF holders = {} THEN TableOf(call[t].op, market, sectors)
        ELSE df[CHOOSE u \in holders : TRUE]

\* What the fetch of thread t returns: the provider's table as it is now.
FetchedFrame(t) == TableOf(call[t].op, market, sectors)

\* df = ak.stock_zh_a_spot_em() / ak.stock_board_industry_name_em()
Fetch(t) ==
    /\ pc[t] = "fetch"
    /\ \/ /\ df' = [df EXCEPT ![t] = FetchedFrame(t)]
          /\ pc' = [pc EXCEPT ![t] = "prepare"]
          /\ hist' = [hist EXCEPT ![t].fetches = @ + 1,
                                  ![t].fetched = TableOf(call[t].op, market, sectors)]
          /\ UNCHANGED exc
       \/ /\ pc' = [pc EXCEPT ![t] = "except"]
          /\ exc' = [exc EXCEPT ![t] = ConnectionError]
          /\ hist' = [hist EXCEPT ![t].fetches = @ + 1, ![t].outcome = "fetch_raises",
                                  ![t].raised = TRUE]
          /\ UNCHANGED df
    /\ UNCHANGED <<market, sectors, last, call, items, result, resp>>

\* The statements between the fetch and the loop.
Prepared(t) == Prepare(call[t].op, df[t], call[t].stock_code, call[t].tie)

PrepareStep(t) ==
    /\ pc[t] = "prepare"
    /\ \E r \in {Prepared(t)} :
          \/ /\ r.ok
             /\ items' = [items EXCEPT ![t] = r.val]
             /\ pc' = [pc EXCEPT ![t] = "loop"]
             /\ UNCHANGED <<exc, hist>>
          \/ /\ ~r.ok
             /\ pc' = [pc EXCEPT ![t] = "except"]
             /\ exc' = [exc EXCEPT ![t] = r.err]
             /\ hist' = [hist EXCEPT ![t].raised = TRUE]
             /\ UNCHANGED items
    /\ UNCHANGED <<market, sectors, last, call, df, result, resp>>

\* One pass of the loop: the next item, transformed from the thread's frame.
NextEntry(t) == TransformItem(call[t].op, df[t], items[t].items[Len(result[t]) + 1])

LoopStep(t) ==
    /\ pc[t] = "loop"
    /\ Len(result[t]) < Len(items[t].items)
    /\ \E r \in {NextEntry(t)} :
          \/ /\ r.ok
             /\ result' = [result EXCEPT ![t] = Append(@, r.val)]
             /\ UNCHANGED <<pc, exc, hist>>
          \/ /\ ~r.ok
             /\ pc' = [pc EXCEPT ![t] = "except"]
             /\ exc' = [exc EXCEPT ![t] = r.err]
             /\ hist' = [hist EXCEPT ![t].raised = TRUE]
             /\ UNCHANGED result
    /\ UNCHANGED <<market, sectors, last, call, df, items, resp>>

\* return json.dumps(result, ...), or the not-found text of get_stock_info.
Return(t) ==
    /\ pc[t] = "loop"
    /\ Len(result[t]) = Len(items[t].items)
    /\ resp' = [resp EXCEPT ![t] =
                   Assemble(call[t].op, call[t].stock_code, result[t], items[t].split)]
    /\ pc' = [pc EXCEPT ![t] = "done"]
    /\ UNCHANGED <<market, sectors, last, call, df, items, result, exc, hist>>

\* An except branch that hands over the entries made so far (what C10 rules
\* out).
ExceptReturnPartial(t) ==
    Json(Demo(call[t].op, call[t].stock_code)
         @@ [error |-> Str(exc[t]), partial |-> result[t]])

\* What the except branch of thread t returns.
ExceptReturn(t) == Fallback(call[t].op, call[t].stock_code, exc[t])

Except(t) ==
    /\ pc[t] = "except"
    /\ resp' = [resp EXCEPT ![t] = ExceptReturn(t)]
    /\ pc' = [pc EXCEPT ![t] = "done"]
    /\ UNCHANGED <<market, sectors, last, call, df, items, result, exc, hist>>

NextSteps ==
    \/ ProviderUpdate
    \/ \E t \in Threads : Start(t)
    \/ \E t \in Threads : Context(t)
    \/ \E t \in Threads : Fetch(t)
    \/ \E t \in Threads : PrepareStep(t)
    \/ \E t \in Threads : LoopStep(t)
    \/ \E t \in Threads : Return(t)
    \/ \E t \in Threads : Except(t)

SpecSteps == InitSteps /\ [][NextSteps]_vars
(***************************************************************************)
(* The claims.  In Spec, last is the one invocation made; in SpecSteps,    *)
(* the claims speak of every thread whose invocation has returned.         *)
(***************************************************************************)
Min(a, b) == IF a < b THEN a ELSE b
Abs(x) == IF x < 0 THEN -x ELSE x

Called(o) == last.op = o
Succeeded(o) == last.op = o /\ ~last.raised
IsJson(r) == r.kind = "json"
WithoutKey(doc, k) == [x \in DOMAIN doc \ {k} |-> doc[x]]
IsFallbackOf(r, o, stock_code, msg) ==
    /\ IsJson(r)
    /\ "error" \in DOMAIN r.doc
    /\ r.doc.error = msg
    /\ WithoutKey(r.doc, "error") = Demo(o, stock_code)

\* The number float(c) yields for a cell c that converts.
Echo(c) == IF c.t \in {"txt", "int"} THEN F(c.v) ELSE c

IndexNames == {"ShangZheng", "ShenZheng", "ChuangYe", "KeChuang50"}

\* Where the demo documents carry their note: on each index entry for
\* get_stock_index_data, at the top for the other four.
HasDemoNote(o, doc) ==
    IF o = "get_stock_index_data"
    THEN \A n \in IndexNames : "note" \in DOMAIN doc[n] /\ doc[n].note = "demo data"
    ELSE "note" \in DOMAIN doc /\ doc.note = "demo data"

\* C1 as stated: when the provider's call fails, the document returned has
\* a "note" key and an "error" key of its own, for each of the five
\* operations.
C1_NoteAndErrorKeys ==
    (last.op \in Ops /\ last.outcome = "fetch_raises") =>
        /\ IsJson(last.resp)
        /\ {"note", "error"} \subseteq DOMAIN last.resp.doc
        /\ last.resp.doc.error = Str(ConnectionError)

\* C1: whichever of the five operations is called, when the provider's call
\* fails the caller gets a JSON document (no exception) that carries an
\* "error" key holding str(e) and the static placeholder values, marked as
\* demo data by a "note": a key of the document for four operations, a key
\* of each of the four index entries for get_stock_index_data.
C1_FallbackOnProviderFailure ==
    (last.op \in Ops /\ last.outcome = "fetch_raises") =>
        /\ IsJson(last.resp)
        /\ "error" \in DOMAIN last.resp.doc
        /\ last.resp.doc.error = Str(ConnectionError)
        /\ HasDemoNote(last.op, last.resp.doc)
        /\ last.op = "get_stock_index_data" => "note" \notin DOMAIN last.resp.doc
        /\ WithoutKey(last.resp.doc, "error") = Demo(last.op, last.stock_code)

C1_Witness ==
    /\ Called("get_stock_index_data")
    /\ last.outcome = "fetch_raises"
    /\ last.resp.doc.error = "connection aborted"
    /\ last.resp.doc.KeChuang50.note = "demo data"
    /\ Len(market.rows) > 0

\* The rows of the snapshot that carry the stock code asked for.
Matching == SelectSeq(market.rows, LAMBDA r : r.code = last.stock_code)

\* The fields of a document that are floats; code, name and the like are
\* strings.
StringKeys == {"code", "name", "sector", "note", "error"}
FloatCount(doc) == Cardinality({k \in DOMAIN doc \ StringKeys : IsFloat(doc[k])})

\* C2 as stated: a present code yields a JSON document with 15 fields
\* populated as floats, an absent code the plain not-found text.
C2_FifteenFloats ==
    (Succeeded("get_stock_info") /\ Matching # <<>>) =>
        /\ IsJson(last.resp)
        /\ FloatCount(last.resp.doc) = 15

\* C2 amended: on a snapshot with all sixteen columns whose first row with
\* the code converts, the document has sixteen fields: code and name as the
\* row has them and the fourteen numeric fields as floats of that row; on a
\* snapshot with a code column and no row with the code, the answer is the
\* plain not-found text naming the code asked for.
C2_FourteenFloats ==
    (Called("get_stock_info") /\ last.outcome = "ok" /\ "code" \in market.cols) =>
        IF Matching = <<>>
        THEN last.resp = Text(NotFound(last.stock_code))
        ELSE (/\ market.cols = StockCols
              /\ \A k \in Range(InfoFields) : Matching[1][k].t # "bad") =>
                  /\ IsJson(last.resp)
                  /\ DOMAIN last.resp.doc = {"code", "name"} \cup Range(InfoFields)
                  /\ last.resp.doc.code = last.stock_code
                  /\ last.resp.doc.name = Matching[1].name
                  /\ \A k \in Range(InfoFields) :
                        /\ IsFloat(last.resp.doc[k])
                        /\ last.resp.doc[k] = Echo(Matching[1][k])
                  /\ FloatCount(last.resp.doc) = 14

C2_Witness ==
    /\ Succeeded("get_stock_info")
    /\ Len(Matching) = 2
    /\ IsJson(last.resp)
    /\ last.resp.doc.price = F(308515)

(***************************************************************************)
(* Orderings with missing values: a sequence of entries is ordered when    *)
(* its entries that have a pct are in order and its entries without one    *)
(* (NaN) come after them.                                                  *)
(***************************************************************************)
Ordered(es, asc) ==
    \A i, j \in 1..Len(es) :
        i < j =>
            /\ (HasValue(es[i].pct) /\ HasValue(es[j].pct)) =>
                  IF asc THEN es[i].pct.v <= es[j].pct.v ELSE es[i].pct.v >= es[j].pct.v
            /\ ~HasValue(es[i].pct) => ~HasValue(es[j].pct)

Valued(s) == {i \in 1..Len(s) : HasValue(s[i].pct)}
Above(s, v) == Cardinality({i \in Valued(s) : s[i].pct.v > v})
Below(s, v) == Cardinality({i \in Valued(s) : s[i].pct.v < v})
PctValues(s) == {s[i].pct.v : i \in Valued(s)}

\* es holds the k rows of rows with the largest pct (rows without a pct
\* count as the smallest): as many above any value as the table allows.
Largest(es, rows, k) ==
    /\ Cardinality(Valued(es)) = Min(k, Cardinality(Valued(rows)))
    /\ \A v \in PctValues(rows) : Above(es, v) = Min(k, Above(rows, v))

\* es holds k rows with the smallest pct among the rows that have one,
\* after which rows without a pct fill it.
Smallest(es, rows, k) ==
    /\ Cardinality(Valued(es)) = Min(k, Cardinality(Valued(rows)))
    /\ \A v \in PctValues(rows) : Below(es, v) = Min(k, Below(rows, v))

\* Every entry is one row of the table, no row twice (names are unique).
FromRows(es, rows, key) ==
    /\ \A i \in 1..Len(es) : \E j \in 1..Len(rows) :
          /\ es[i][key] = rows[j][key]
          /\ es[i].pct = Echo(rows[j].pct)
          /\ es[i].price = Echo(rows[j].price)
    /\ \A i, j \in 1..Len(es) : es[i][key] = es[j][key] => i = j

\* C3: the gainers are non-increasing and the losers non-decreasing by
\* pct, each list has min(20, n) entries, and each entry is one of the
\* rows with the largest (smallest) pct of the snapshot.
C3_RankingOrder ==
    Succeeded("get_stock_ranking") =>
        LET gainers == last.resp.doc.gainers
            losers == last.resp.doc.losers
            k == Min(20, Len(market.rows))
        IN  /\ DOMAIN last.resp.doc = {"gainers", "losers"}
            /\ Len(gainers) = k
            /\ Len(losers) = k
            /\ Ordered(gainers, FALSE)
            /\ Ordered(losers, TRUE)
            /\ Largest(gainers, market.rows, k)
            /\ Smallest(losers, market.rows, k)
            /\ FromRows(gainers, market.rows, "name")
            /\ FromRows(losers, market.rows, "name")

C3_Witness ==
    /\ Succeeded("get_stock_ranking")
    /\ Len(market.rows) > 20
    /\ Len(last.resp.doc.gainers) = 20
    /\ last.resp.doc.gainers[1].pct.v > last.resp.doc.gainers[20].pct.v
    /\ last.resp.doc.gainers[20].pct = last.resp.doc.gainers[19].pct
    /\ last.resp.doc.losers[1].pct.v < last.resp.doc.losers[20].pct.v

\* The rows of the snapshot that carry an index code.
RowsOf(code) == SelectSeq(market.rows, LAMBDA r : r.code = code)

\* C4: the document maps exactly the four index names; the entry of a code
\* the snapshot holds echoes the five numeric fields of that code's (first)
\* row (0.0 for a column the snapshot lacks), the entry of a code it lacks
\* is all zero and tagged "no data", whatever the other three codes are.
C4_IndexEcho ==
    Succeeded("get_stock_index_data") =>
        /\ IsJson(last.resp)
        /\ DOMAIN last.resp.doc = IndexNames
        /\ \A i \in 1..Len(indices) :
              LET entry == last.resp.doc[indices[i].name]
                  rows == RowsOf(indices[i].code)
              IN  /\ entry.code = indices[i].code
                  /\ IF rows = <<>>
                     THEN /\ DOMAIN entry = {"code", "note"} \cup Range(IndexFields)
                          /\ entry.note = "no data"
                          /\ \A f \in Range(IndexFields) : entry[f] = I(0)
                     ELSE /\ DOMAIN entry = {"code"} \cup Range(IndexFields)
                          /\ \A f \in Range(IndexFields) :
                                entry[f] = IF f \in market.cols THEN Echo(rows[1][f]) ELSE F(0)

C4_Witness ==
    /\ Succeeded("get_stock_index_data")
    /\ RowsOf("000001") # <<>>
    /\ Len(RowsOf("000001")) > 1
    /\ RowsOf("399001") = <<>>
    /\ last.resp.doc.ShangZheng.price = F(308515)
    /\ last.resp.doc.ShenZheng.note = "no data"

\* The sum of f over the finite set S.
RECURSIVE SumOver(_, _)
SumOver(S, f) ==
    IF S = {} THEN 0
    ELSE LET x == CHOOSE y \in S : TRUE IN f[x] + SumOver(S \ {x}, f)

\* r hundredths is num / den rounded to two decimals: no hundredth is nearer.
IsRounded(r, num, den) == 2 * Abs(num - r * den) <= den

\* The rows of the snapshot that have a percent change, and how many of
\* them have one (in tenths) of x or more, of x or less.
WithPct == {i \in 1..Len(market.rows) : HasValue(market.rows[i].pct)}
PctAtLeast(x) == Cardinality({i \in WithPct : market.rows[i].pct.v >= x})
PctAtMost(x) == Cardinality({i \in WithPct : market.rows[i].pct.v <= x})

\* C5: over all rows, limit-up counts the rows with pct >= 9.9, limit-down
\* those with pct <= -9.9, up, down and flat those with pct > 0, < 0 and = 0,
\* total is the number of rows, the mean pct and the total amount in units
\* of 100,000,000 are rounded to two decimals (pct is held in tenths, the
\* two results in hundredths).  A row without a pct or an
\* amount (NaN) adds to neither sum, and the mean is over the rows with one.
C5_Statistics ==
    Succeeded("get_market_statistics") =>
        LET doc == last.resp.doc
            rows == market.rows
            withPct == {i \in 1..Len(rows) : HasValue(rows[i].pct)}
            withAmt == {i \in 1..Len(rows) : HasValue(rows[i].amount)}
            pctSum == SumOver(withPct, [i \in withPct |-> rows[i].pct.v])
            amtSum == SumOver(withAmt, [i \in withAmt |-> rows[i].amount.v])
        IN  /\ DOMAIN doc = {"limits", "counts", "perf", "total"}
            /\ doc.limits = [limit_up |-> I(PctAtLeast(99)),
                             limit_down |-> I(PctAtMost(-99))]
            /\ doc.counts = [up |-> I(Cardinality(WithPct) - PctAtMost(0)),
                             down |-> I(Cardinality(WithPct) - PctAtLeast(0)),
                             flat |-> I(PctAtLeast(0) + PctAtMost(0) - Cardinality(WithPct))]
            /\ doc.total = I(Len(rows))
            /\ DOMAIN doc.perf = {"avg_pct", "total_amount"}
            /\ IF withPct = {} THEN doc.perf.avg_pct = NaN
               ELSE /\ doc.perf.avg_pct.t = "float"
                    /\ IsRounded(doc.perf.avg_pct.v, 10 * pctSum, Cardinality(withPct))
            /\ doc.perf.total_amount.t = "float"
            /\ IsRounded(doc.perf.total_amount.v, amtSum, 1000000)

C5_Witness ==
    /\ Succeeded("get_market_statistics")
    /\ Len(market.rows) > 20
    /\ last.resp.doc.limits.limit_up.v > 1
    /\ last.resp.doc.limits.limit_down.v > 1
    /\ last.resp.doc.counts.flat.v > 1
    /\ last.resp.doc.counts.up.v > last.resp.doc.limits.limit_up.v
    /\ last.resp.doc.perf.avg_pct.v # 0
    /\ last.resp.doc.perf.total_amount.v > 10

Names(es) == {es[i].sector : i \in 1..Len(es)}

\* C6: best and worst hold min(10, n) sectors each, share none when the
\* table has 20 sectors or more, and are the head and the tail of one
\* table sorted by pct, largest first: each is ordered, best holds the
\* largest and worst the smallest, and where they overlap (n < 20) they
\* hold the same rows in the same places.
C6_SectorHeadTail ==
    Succeeded("get_sector_performance") =>
        LET best == last.resp.doc.best
            worst == last.resp.doc.worst
            rows == sectors.rows
            n == Len(rows)
            k == Min(10, n)
            nans == n - Cardinality(Valued(rows))
        IN  /\ DOMAIN last.resp.doc = {"best", "worst"}
            /\ Len(best) = k
            /\ Len(worst) = k
            /\ n >= 20 => Names(best) \cap Names(worst) = {}
            /\ Ordered(best, FALSE)
            /\ Ordered(worst, FALSE)
            /\ Largest(best, rows, k)
            /\ k - Cardinality(Valued(worst)) = Min(k, nans)
            /\ \A v \in PctValues(rows) : Below(worst, v) = Min(k - Min(k, nans), Below(rows, v))
            /\ FromRows(best, rows, "sector")
            /\ FromRows(worst, rows, "sector")
            /\ \A i \in (n - k + 1)..k : best[i] = worst[i - (n - k)]

C6_Witness ==
    /\ Succeeded("get_sector_performance")
    /\ Len(sectors.rows) > 20
    /\ Len(last.resp.doc.best) = 10
    /\ last.resp.doc.best[1].pct.v > last.resp.doc.best[10].pct.v
    /\ last.resp.doc.worst[1].pct.v > last.resp.doc.worst[10].pct.v
    /\ last.resp.doc.best[10].pct.v > last.resp.doc.worst[1].pct.v

Parameterless == Ops \ {"get_stock_info"}

\* The table the operation called read, and the columns its code names.
Table == TableOf(last.op, market, sectors)
Reads(o) ==
    CASE o = "get_stock_index_data" -> {"code"} \cup Range(IndexFields)
      [] o = "get_stock_ranking" -> Range(RankColumns)
      [] o = "get_market_statistics" -> {"pct", "amount"}
      [] o = "get_sector_performance" -> Range(SectorColumns)
      [] o = "get_stock_info" -> {"code", "name"} \cup Range(InfoFields)

\* The columns whose absence raises KeyError: get_stock_index_data reads the
\* numeric ones with a default.
Indexes(o) == IF o = "get_stock_index_data" THEN {"code"} ELSE Reads(o)

IsNormal(r) == IsJson(r) /\ "error" \notin DOMAIN r.doc

\* C7 as stated: a parameterless operation answers each kind of failure - the
\* fetch raises, the table lacks a column the operation reads, the table has
\* no row - with the fallback document carrying the error, never with a
\* normal one.
C7_EveryFailureKindFallsBack ==
    (last.op \in Parameterless /\ last.outcome # "ctx_raises"
        /\ (\/ last.outcome = "fetch_raises"
            \/ Reads(last.op) \ Table.cols # {}
            \/ Table.rows = <<>>)) =>
        IsFallbackOf(last.resp, last.op, "", last.err)

\* C7: whatever a parameterless operation raises is caught and answered with
\* the fallback document carrying str(e).  It raises when the fetch raises
\* and when the table lacks a column it indexes; get_stock_index_data reads
\* its numeric columns with a default and answers normally without them.  A
\* table of no row that has the columns raises nothing: the answer is a
\* normal document (empty lists, zero counts, four "no data" entries).
C7_FailuresFallBack ==
    last.op \in Parameterless =>
        /\ last.raised => IsFallbackOf(last.resp, last.op, "", last.err)
        /\ ~last.raised => IsNormal(last.resp)
        /\ last.outcome = "fetch_raises" => last.raised /\ last.err = Str(ConnectionError)
        /\ last.outcome = "ctx_raises" => last.raised /\ last.err = Str(ContextError)
        /\ (last.outcome = "ok" /\ Indexes(last.op) \ Table.cols # {}) =>
              last.raised
        /\ (last.outcome = "ok" /\ Indexes(last.op) \subseteq Table.cols
                /\ Table.rows = <<>>) => ~last.raised
        /\ (last.outcome = "ok" /\ last.op = "get_stock_index_data"
                /\ "code" \in Table.cols
                /\ \A i \in 1..Len(Table.rows) : \A f \in Range(IndexFields) :
                      Table.rows[i][f].t # "bad") => ~last.raised

C7_Witness ==
    /\ Called("get_stock_ranking")
    /\ last.outcome = "ok"
    /\ "pct" \notin market.cols
    /\ Len(market.rows) = 2
    /\ last.raised
    /\ last.resp.doc.error = "pct"
    /\ last.resp.doc.note = "demo data"

\* The numbers of a normal document, by operation.
Numbers(o, doc) ==
    CASE o = "get_stock_index_data" ->
            {doc[n][f] : n \in IndexNames, f \in Range(IndexFields)}
      [] o = "get_stock_ranking" ->
            {doc.gainers[i][f] : i \in 1..Len(doc.gainers),
                                 f \in {"price", "pct", "change", "volume", "amount"}}
            \cup {doc.losers[i][f] : i \in 1..Len(doc.losers),
                                     f \in {"price", "pct", "change", "volume", "amount"}}
      [] o = "get_market_statistics" ->
            {doc.limits.limit_up, doc.limits.limit_down, doc.counts.up, doc.counts.down,
             doc.counts.flat, doc.perf.avg_pct, doc.perf.total_amount, doc.total}
      [] o = "get_sector_performance" ->
            {doc.best[i][f] : i \in 1..Len(doc.best),
                              f \in {"price", "pct", "change", "ups", "downs"}}
            \cup {doc.worst[i][f] : i \in 1..Len(doc.worst),
                                    f \in {"price", "pct", "change", "ups", "downs"}}
      [] o = "get_stock_info" -> {doc[f] : f \in Range(InfoFields)}

\* The numeric columns the operation reads.
NumericReads(o) == Reads(o) \ StringKeys

\* The rows whose cells the operation converts.
Converted(o) ==
    CASE o = "get_stock_index_data" ->
            {r \in Range(Table.rows) : \E i \in 1..Len(indices) : r.code = indices[i].code}
      [] o = "get_stock_info" -> Range(Matching)
      [] OTHER -> Range(Table.rows)

AllNumbers ==
    (last.op \in Ops /\ IsNormal(last.resp)) =>
        \A c \in Numbers(last.op, last.resp.doc) : IsNumber(c)

\* C8 as stated: the numbers of every normal document are floats or
\* integers, and a numeric column missing from the table is written as 0
\* instead of changing the answer to another response.
C8_MissingWrittenAsZero ==
    /\ AllNumbers
    /\ (last.op \in Ops /\ last.outcome = "ok" /\ "code" \in Table.cols
            /\ Converted(last.op) # {}
            /\ \A r \in Converted(last.op) : \A f \in NumericReads(last.op) : r[f].t # "bad"
            /\ NumericReads(last.op) \ Table.cols # {}) => IsNormal(last.resp)

\* C8: the numbers of every normal document are floats (NaN included) or
\* integers, text that parses included.  A numeric column missing from the
\* table is written as 0.0 by get_stock_index_data only; the other four
\* operations answer a table without a column they read with the fallback
\* document.
C8_NumbersCoerced ==
    /\ AllNumbers
    /\ (last.op = "get_stock_index_data" /\ IsNormal(last.resp)) =>
          \A i \in 1..Len(indices) : \A f \in Range(IndexFields) \ market.cols :
              RowsOf(indices[i].code) # <<>> => last.resp.doc[indices[i].name][f] = F(0)
    /\ (last.op \in Ops \ {"get_stock_index_data"} /\ last.outcome = "ok"
            /\ Converted(last.op) # {} /\ NumericReads(last.op) \ Table.cols # {}) =>
          /\ last.raised
          /\ IsFallbackOf(last.resp, last.op, last.stock_code, last.err)

C8_Witness ==
    /\ Called("get_stock_index_data")
    /\ IsNormal(last.resp)
    /\ "price" \notin market.cols
    /\ RowsOf("399001") # <<>>
    /\ last.resp.doc.ShenZheng.price = F(0)
    /\ last.resp.doc.ShenZheng.pct = F(-99)

Done(t) == pc[t] = "done"

\* What the invocation of thread t answers when run alone, start to end, on
\* the table its own fetch returned (none when the context or the fetch
\* raised).
Alone(t) ==
    Handler(call[t].op, call[t].stock_code,
            TryBody(call[t].op, hist[t].fetched, call[t].stock_code, call[t].tie,
                    hist[t].outcome))

\* C9: however two threads' invocations and the provider's updates
\* interleave, an invocation that returned answers what it answers run
\* alone on the table it fetched itself with its own stock_code, the frame
\* it works on is the one its own fetch returned, and it fetched at most
\* once.
C9_InvocationsIndependent ==
    \A t \in Threads :
        /\ Done(t) => resp[t] = Alone(t)
        /\ pc[t] \in {"prepare", "loop"} => df[t] = hist[t].fetched
        /\ (Done(t) /\ hist[t].outcome = "ok") => df[t] = hist[t].fetched

C9_Witness ==
    /\ Done("t1") /\ Done("t2")
    /\ call["t1"].op = "get_stock_ranking"
    /\ call["t2"].op = "get_stock_ranking"
    /\ ~hist["t1"].raised /\ ~hist["t2"].raised
    /\ hist["t1"].fetched = Snapshots[1].market
    /\ hist["t2"].fetched = Snapshots[3].market
    /\ market = Snapshots[2].market
    /\ Len(resp["t1"].doc.gainers) = 2
    /\ Len(resp["t2"].doc.gainers) = 0

\* The entries thread t's loop has made are those of its own frame.
FromSnapshot(t) ==
    \A i \in 1..Len(result[t]) :
        result[t][i] = TransformItem(call[t].op, hist[t].fetched, items[t].items[i]).val

\* C10: an invocation that raised anywhere in its body - the context, the
\* fetch, the preparation, any pass of the loop, entries already made or
\* not - answers the static demo document plus "error" and nothing of the
\* snapshot; one that did not raise answers a document assembled from the
\* entries of its snapshot only, without "error".  The fetch is called at
\* most once per invocation.
C10_AllOrNothing ==
    \A t \in Threads :
        /\ hist[t].fetches <= 1
        /\ (Done(t) /\ hist[t].raised) =>
              /\ IsJson(resp[t])
              /\ DOMAIN resp[t].doc = DOMAIN Demo(call[t].op, call[t].stock_code) \cup {"error"}
              /\ resp[t].doc.error = Str(exc[t])
              /\ WithoutKey(resp[t].doc, "error") = Demo(call[t].op, call[t].stock_code)
        /\ (Done(t) /\ ~hist[t].raised) =>
              /\ exc[t] = None
              /\ Len(result[t]) = Len(items[t].items)
              /\ FromSnapshot(t)
              /\ resp[t] = Assemble(call[t].op, call[t].stock_code, result[t], items[t].split)
              /\ IsJson(resp[t]) => "error" \notin DOMAIN resp[t].doc

C10_Witness ==
    /\ Done("t1")
    /\ call["t1"].op = "get_stock_index_data"
    /\ hist["t1"].raised
    /\ hist["t1"].fetches = 1
    /\ Len(result["t1"]) = 3
    /\ resp["t1"].doc.error = "could not convert string to float"
    /\ resp["t1"].doc.ShangZheng.note = "demo data"

====
